---- MODULE Spec2Model ----
(***************************************************************************)
(* A model of src/utils.py of codebase_genius: the diagram builder         *)
(* create_mermaid_chart, the tree-sitter based extractor                   *)
(* analyze_python_code and its helper get_docstring.                       *)
(*                                                                         *)
(* The subscripts of the source ([], [0]) are read where the text of       *)
(* src/utils.py has lost them: results starts with four empty lists,       *)
(* get_docstring looks at children[0] of the body and of its first         *)
(* statement, and start_point / end_point give the row.                    *)
(***************************************************************************)
EXTENDS Integers, Sequences, FiniteSets, TLC

VARIABLES
    \* ---- create_mermaid_chart ----
    libs,        \* "nx" and "nxm" are in globals() (the import at line 13 worked)
    nodes,       \* argument: list of node dicts
    edges,       \* argument: list of edge dicts
    G,           \* the nx.DiGraph under construction
    gi,          \* position of the running for loop
    gpc,         \* where create_mermaid_chart stands
    ret,         \* its return value
    \* ---- analyze_python_code ----
    tree,        \* the syntax tree py_parser.parse returned, in document order
    caps,        \* per node: the sub-captures the definition queries deliver
    func_nodes,  \* dict func_nodes, in insertion order
    class_nodes, \* dict class_nodes, in insertion order
    results,     \* dict results
    ci,          \* position in captures_calls
    parent_func, \* the loop variable of the ancestor walk (0 is None)
    apc,         \* where analyze_python_code stands
    \* ---- get_docstring ----
    body_node,   \* argument: the block node of a definition
    docstring,   \* its return value
    dpc          \* where get_docstring stands

gvars == <<libs, nodes, edges, G, gi, gpc, ret>>
avars == <<tree, caps, func_nodes, class_nodes, results, ci, parent_func, apc>>
dvars == <<body_node, docstring, dpc>>
vars == <<gvars, avars, dvars>>

(***************************************************************************)
(* Bounds of the model.                                                    *)
(***************************************************************************)
MaxNodes == 2
MaxEdges == 2
MaxTree == 4
MaxBody == 2

SeqsUpTo(S, n) == UNION {[1..k -> S] : k \in 0..n}

(***************************************************************************)
(* create_mermaid_chart(nodes, edges)                                      *)
(***************************************************************************)
Ids == {"A", "B"}
Labels == {"A", "x"}

\* Node dicts: complete ones, one without "label", one without "id".
NodeDicts == [id : Ids, label : Labels] \cup {[id |-> "A"], [label |-> "x"]}

\* Edge dicts: complete ones, one without "to", one without "from".
EdgeDicts == [from : Ids, to : Ids] \cup {[from |-> "A"], [to |-> "B"]}

\* A node of the DiGraph that add_edge created carries no label attribute.
NoLabel == "<no label attribute>"

\* The empty string create_mermaid_chart returns when it draws nothing.
EmptyText == <<>>

\* nx.DiGraph()
EmptyGraph == [label |-> [x \in {} |-> NoLabel], edge |-> {}]

\* G.has_node(n)
HasNode(g, n) == n \in DOMAIN g.label

\* G.add_node(n, label=l): a new node, or the attribute of an old one updated.
AddNode(g, n, l) ==
    [g EXCEPT !.label = [x \in (DOMAIN g.label) \cup {n} |->
                            IF x = n THEN l ELSE g.label[x]]]

\* G.add_edge(u, v): networkx adds an endpoint it does not know, bare.
AddEdge(g, u, v) ==
    [label |-> [x \in (DOMAIN g.label) \cup {u, v} |->
                   IF x \in DOMAIN g.label THEN g.label[x] ELSE NoLabel],
     edge |-> g.edge \cup {<<u, v>>}]

\* Mutants of EnsureNode.
EnsureNodeSkipped(g, n) == g
EnsureNodeAlways(g, n) == AddNode(g, n, n)

\* if not G.has_node(n): G.add_node(n, label=n)
EnsureNode(g, n) == IF HasNode(g, n) THEN g ELSE AddNode(g, n, n)

\* str(builder.build(G)): the diagram text names every node with its label
\* and every edge, top to bottom.
Render(g) == <<"graph TD", g.label, g.edge>>

\* Lines 226-233: the two early returns, then G = nx.DiGraph().
ChartEnter ==
    /\ gpc = "entry"
    /\ IF ~libs \/ nodes = <<>>
       THEN /\ ret' = EmptyText
            /\ gpc' = "done"
            /\ UNCHANGED <<G, gi>>
       ELSE /\ G' = EmptyGraph
            /\ gi' = 1
            /\ gpc' = "nodes"
            /\ UNCHANGED ret
    /\ UNCHANGED <<libs, nodes, edges>>
    /\ UNCHANGED <<avars, dvars>>

\* Lines 234-235: one turn of `for n in nodes`; a missing key raises KeyError.
ChartAddNode ==
    /\ gpc = "nodes"
    /\ gi <= Len(nodes)
    /\ LET n == nodes[gi] IN
       IF {"id", "label"} \subseteq DOMAIN n
       THEN /\ G' = AddNode(G, n.id, n.label)
            /\ gi' = gi + 1
            /\ gpc' = "nodes"
       ELSE /\ gpc' = "raised"
            /\ UNCHANGED <<G, gi>>
    /\ UNCHANGED <<libs, nodes, edges, ret>>
    /\ UNCHANGED <<avars, dvars>>

\* Line 237: the node loop is over, the edge loop starts.
ChartNodesDone ==
    /\ gpc = "nodes"
    /\ gi > Len(nodes)
    /\ gi' = 1
    /\ gpc' = "edges"
    /\ UNCHANGED <<libs, nodes, edges, G, ret>>
    /\ UNCHANGED <<avars, dvars>>

\* Lines 237-243: one turn of `for e in edges`; e["from"] is read first,
\* e["to"] after the first endpoint is ensured.
ChartAddEdge ==
    /\ gpc = "edges"
    /\ gi <= Len(edges)
    /\ LET e == edges[gi] IN
       IF "from" \notin DOMAIN e
       THEN /\ gpc' = "raised"
            /\ UNCHANGED <<G, gi>>
       ELSE IF "to" \notin DOMAIN e
       THEN /\ G' = EnsureNode(G, e.from)
            /\ gpc' = "raised"
            /\ UNCHANGED gi
       ELSE /\ G' = AddEdge(EnsureNode(EnsureNode(G, e.from), e.to), e.from, e.to)
            /\ gi' = gi + 1
            /\ gpc' = "edges"
    /\ UNCHANGED <<libs, nodes, edges, ret>>
    /\ UNCHANGED <<avars, dvars>>

\* Line 245: the edge loop is over, G is handed to the builder.
ChartEdgesDone ==
    /\ gpc = "edges"
    /\ gi > Len(edges)
    /\ gpc' = "render"
    /\ UNCHANGED <<libs, nodes, edges, G, gi, ret>>
    /\ UNCHANGED <<avars, dvars>>

\* Lines 245-256: builder.build(G) gives the text, or fails inside the
\* library and the except branch returns "".
ChartRender ==
    /\ gpc = "render"
    /\ \E fault \in BOOLEAN :
          ret' = IF fault THEN EmptyText ELSE Render(G)
    /\ gpc' = "done"
    /\ UNCHANGED <<libs, nodes, edges, G, gi>>
    /\ UNCHANGED <<avars, dvars>>

NextChart ==
    \/ ChartEnter
    \/ ChartAddNode
    \/ ChartNodesDone
    \/ ChartAddEdge
    \/ ChartEdgesDone
    \/ ChartRender

(***************************************************************************)
(* get_docstring(body_node, content_bytes)                                 *)
(*                                                                         *)
(* A node is [type, text, children]: text is the text of the node's span,  *)
(* a sequence of tokens.  The span of a tree-sitter string node runs from  *)
(* its opening quote to its closing quote.                                 *)
(***************************************************************************)
Quotes == {"'", "\"\"\""}
Contents == {"doc", ""}

Leaf(type, text) == [type |-> type, text |-> text, children |-> <<>>]

StringNode(q, c) == Leaf("string", <<q, c, q>>)

\* The statements a body is made of, as the parser delivers them.
StringStatements ==
    {[type |-> "expression_statement", text |-> <<q, c, q>>,
      children |-> <<StringNode(q, c)>>] : q \in Quotes, c \in Contents}

CallStatement(callee) ==
    [type |-> "expression_statement", text |-> <<callee, "(", ")">>,
     children |-> <<Leaf("call", <<callee, "(", ")">>)>>]

\* "doc" + x : an expression statement that starts with a string literal
\* and is not one.
BinaryStatement ==
    [type |-> "expression_statement", text |-> <<"'", "doc", "'", "+", "x">>,
     children |-> <<[type |-> "binary_operator",
                     text |-> <<"'", "doc", "'", "+", "x">>,
                     children |-> <<StringNode("'", "doc"),
                                    Leaf("+", <<"+">>),
                                    Leaf("identifier", <<"x">>)>>]>>]

PassStatement == Leaf("pass_statement", <<"pass">>)

Statements ==
    StringStatements \cup {CallStatement("g"), BinaryStatement, PassStatement}

RECURSIVE Flatten(_)
Flatten(ss) == IF ss = <<>> THEN <<>> ELSE Head(ss).text \o Flatten(Tail(ss))

Block(ss) == [type |-> "block", text |-> Flatten(ss), children |-> ss]

\* Lines 78-80: content_bytes[node.start_byte:node.end_byte].decode('utf8')
get_node_text(node) == node.text

\* Lines 82-88.
get_docstring(body) ==
    IF /\ Len(body.children) > 0
       /\ body.children[1].type = "expression_statement"
       /\ body.children[1].children[1].type = "string"
    THEN get_node_text(body.children[1].children[1])
    ELSE EmptyText

\* One call of get_docstring.
DocstringCall ==
    /\ dpc = "entry"
    /\ docstring' = get_docstring(body_node)
    /\ dpc' = "done"
    /\ UNCHANGED body_node
    /\ UNCHANGED <<gvars, avars>>

NextDocstring == DocstringCall

(***************************************************************************)
(* analyze_python_code(file_content)                                       *)
(*                                                                         *)
(* The tree is the sequence of its nodes in document order (preorder);     *)
(* node 1 is the module, a node is [kind, text, parent].  text is the      *)
(* name of a definition, the callee of a call, the module of an import.    *)
(* The block of a definition and the identifier of a call are not nodes    *)
(* of the sequence: a child of a definition is a statement of its block,   *)
(* and the identifier a query captures is named by the node that owns it.  *)
(* Every node starts on a line of its own: node n is on row n - 2.         *)
(***************************************************************************)
None == "<None>"

Root == [kind |-> "module", text |-> "", parent |-> 0]

\* What tree-sitter finds in a text: definitions, calls of a plain name,
\* a nested block without a definition node of its own, imports, and the
\* ERROR node it puts where the text does not parse.
Shapes ==
    {[kind |-> "function_definition", text |-> "f"],
     [kind |-> "function_definition", text |-> "g"],
     [kind |-> "class_definition", text |-> "C"],
     [kind |-> "if_statement", text |-> ""],
     [kind |-> "call", text |-> "g"],
     [kind |-> "import_statement", text |-> "os"],
     [kind |-> "import_from_statement", text |-> "os"],
     [kind |-> "ERROR", text |-> "}"]}

\* The kinds of node that hold statements.
Interior == {"module", "function_definition", "class_definition", "if_statement"}

Definitions == {"function_definition", "class_definition"}

RECURSIVE Ancestors(_, _)
Ancestors(t, n) ==
    IF t[n].parent = 0 THEN {} ELSE {t[n].parent} \cup Ancestors(t, t[n].parent)

\* The nodes a next node of the text can be a child of.
OpenNodes(t) ==
    {a \in Ancestors(t, Len(t)) \cup {Len(t)} : t[a].kind \in Interior}

Children(t, n) == {k \in 1..Len(t) : t[k].parent = n}

\* The last node of the subtree of n.
LastOf(t, n) ==
    CHOOSE m \in n..Len(t) :
        /\ \A k \in (n + 1)..m : n \in Ancestors(t, k)
        /\ m = Len(t) \/ n \notin Ancestors(t, m + 1)

\* node.start_point / node.end_point, the row.
StartRow(t, n) == IF n = 1 THEN 0 ELSE n - 2
EndRow(t, n) == StartRow(t, LastOf(t, n))

\* get_node_text of a whole node: the text from its first to its last line.
SpanText(t, n) ==
    [i \in 1..(LastOf(t, n) - n + 1) |-> <<t[n + i - 1].kind, t[n + i - 1].text>>]

\* root_node.has_error
HasError(t) == \E n \in 1..Len(t) : t[n].kind = "ERROR"

\* The sub-captures a definition query asks for (lines 47-59).
Fields(kind) ==
    CASE kind = "function_definition" -> {"name", "params", "body"}
      [] kind = "class_definition" -> {"name", "body"}
      [] OTHER -> {}

FieldOrder == <<"name", "params", "body">>

\* The statement a child of a definition is in the block of the definition.
StatementOf(t, k) ==
    IF t[k].kind = "call"
    THEN CallStatement(t[k].text)
    ELSE Leaf(t[k].kind, <<t[k].text>>)

RECURSIVE StatementsFrom(_, _, _)
StatementsFrom(t, n, k) ==
    IF k > Len(t) THEN <<>>
    ELSE IF t[k].parent = n
         THEN <<StatementOf(t, k)>> \o StatementsFrom(t, n, k + 1)
         ELSE StatementsFrom(t, n, k + 1)

\* data["body"]: the block of definition n; a definition with no statement
\* of the kinds above holds a pass.
BodyOf(t, n) ==
    IF Children(t, n) = {} THEN Block(<<PassStatement>>)
    ELSE Block(StatementsFrom(t, n, n + 1))

(* A capture is [owner, child, name]: the node captured is owner itself    *)
(* when child is "", else the child of owner in that field; name is the    *)
(* capture name of the query.                                              *)
Capture(n, child, name) == [owner |-> n, child |-> child, name |-> name]

\* node.parent of a captured node
CaptureParent(t, c) == IF c.child = "" THEN t[c.owner].parent ELSE c.owner

RECURSIVE FieldCaptures(_, _, _)
FieldCaptures(n, got, i) ==
    IF i > Len(FieldOrder) THEN <<>>
    ELSE (IF FieldOrder[i] \in got
          THEN <<Capture(n, FieldOrder[i], FieldOrder[i])>>
          ELSE <<>>) \o FieldCaptures(n, got, i + 1)

\* query.captures(root_node) of a definition query: per match the
\* definition, then its sub-captures, in document order.
RECURSIVE DefinitionCaptures(_, _, _, _, _)
DefinitionCaptures(t, cp, kind, defname, n) ==
    IF n > Len(t) THEN <<>>
    ELSE (IF t[n].kind = kind
          THEN <<Capture(n, "", defname)>> \o FieldCaptures(n, cp[n], 1)
          ELSE <<>>) \o DefinitionCaptures(t, cp, kind, defname, n + 1)

\* py_queries["calls"].captures(root_node): the call, then its identifier.
RECURSIVE CallCaptures(_, _)
CallCaptures(t, n) ==
    IF n > Len(t) THEN <<>>
    ELSE (IF t[n].kind = "call"
          THEN <<Capture(n, "", "call"), Capture(n, "function", "name")>>
          ELSE <<>>) \o CallCaptures(t, n + 1)

captures_calls == CallCaptures(tree, 1)

(* A dict of definitions in insertion order: an entry is [id, keys], the   *)
(* node id it is stored under and the keys of its value besides def_node.  *)
HasKey(d, id) == \E i \in 1..Len(d) : d[i].id = id

\* Lines 106-111 and 127-132: the loop over the captures of a definition
\* query.
RECURSIVE Correlate(_, _, _, _, _)
Correlate(t, cs, defname, subnames, d) ==
    IF cs = <<>> THEN d
    ELSE LET c == Head(cs)
             d1 == IF c.name = defname
                   THEN IF HasKey(d, c.owner)
                        THEN [i \in 1..Len(d) |->
                                 IF d[i].id = c.owner
                                 THEN [id |-> c.owner, keys |-> {}] ELSE d[i]]
                        ELSE Append(d, [id |-> c.owner, keys |-> {}])
                   ELSE IF c.name \in subnames /\ HasKey(d, CaptureParent(t, c))
                        THEN [i \in 1..Len(d) |->
                                 IF d[i].id = CaptureParent(t, c)
                                 THEN [d[i] EXCEPT !.keys = @ \cup {c.name}]
                                 ELSE d[i]]
                        ELSE d
         IN Correlate(t, Tail(cs), defname, subnames, d1)

\* Lines 115-122: the dict appended for a function.
FunctionEntity(t, n) ==
    [name |-> t[n].text,
     signature |-> <<"def ", t[n].text, "()">>,
     docstring |-> get_docstring(BodyOf(t, n)),
     code_body |-> SpanText(t, n),
     start_line |-> StartRow(t, n),
     end_line |-> EndRow(t, n)]

\* Lines 136-142: the dict appended for a class.
ClassEntity(t, n) ==
    [name |-> t[n].text,
     docstring |-> get_docstring(BodyOf(t, n)),
     code_body |-> SpanText(t, n),
     start_line |-> StartRow(t, n),
     end_line |-> EndRow(t, n)]

\* The keys the dict literal of an entity reads from data.
ReadKeys(kind) == Fields(kind)

\* Lines 113-114 and 134-135: `if "name" not in data: continue`.
Skipped(data) == "name" \notin data.keys

\* data[k] of a key that is not there raises KeyError.
Raises(data, kind) == ~Skipped(data) /\ ~(ReadKeys(kind) \subseteq data.keys)

\* The entries of d the loop gets through: all, or those before the one
\* that raises.
Reached(d, kind) ==
    LET bad == {i \in 1..Len(d) : Raises(d[i], kind)}
    IN IF bad = {} THEN Len(d)
       ELSE (CHOOSE i \in bad : \A j \in bad : i <= j) - 1

RECURSIVE Entities(_, _, _, _, _)
Entities(t, d, kind, i, last) ==
    IF i > last THEN <<>>
    ELSE (IF Skipped(d[i]) THEN <<>>
          ELSE <<IF kind = "function_definition"
                 THEN FunctionEntity(t, d[i].id)
                 ELSE ClassEntity(t, d[i].id)>>)
         \o Entities(t, d, kind, i + 1, last)

EmptyResults == [functions |-> <<>>, classes |-> <<>>, calls |-> <<>>, imports |-> <<>>]

\* Mutants of WalkStops.
WalkStopsAtClass(kind) == kind = "class_definition"
WalkStopsAtBlock(kind) == kind \in Definitions \cup {"if_statement"}

\* Line 150: the kinds the ancestor walk stops at.
WalkStops(kind) == kind \in {"function_definition", "class_definition"}

\* parent_func.child_by_field_name("name"): 0 when the node has no such field.
ChildByFieldName(t, n, field) == IF field \in Fields(t[n].kind) THEN n ELSE 0

\* Lines 153-157.
OwnerName(t, p) ==
    IF p # 0 /\ ChildByFieldName(t, p, "name") # 0
    THEN t[ChildByFieldName(t, p, "name")].text
    ELSE None

\* Lines 95-97: py_parser.parse builds the tree, one node after the other;
\* the queries deliver every sub-capture of a definition.
ParseNode ==
    /\ apc = "parse"
    /\ Len(tree) < MaxTree
    /\ \E s \in Shapes, p \in OpenNodes(tree) :
          /\ tree' = Append(tree, [kind |-> s.kind, text |-> s.text, parent |-> p])
          /\ caps' = Append(caps, Fields(s.kind))
    /\ UNCHANGED <<func_nodes, class_nodes, results, ci, parent_func, apc>>
    /\ UNCHANGED <<gvars, dvars>>

\* As ParseNode, with a definition match that may lack one sub-capture.
ParseNodePartial ==
    /\ apc = "parse"
    /\ Len(tree) < MaxTree
    /\ \E s \in Shapes, p \in OpenNodes(tree) :
          /\ tree' = Append(tree, [kind |-> s.kind, text |-> s.text, parent |-> p])
          /\ \E lost \in {{}} \cup {{f} : f \in Fields(s.kind)} :
                caps' = Append(caps, Fields(s.kind) \ lost)
    /\ UNCHANGED <<func_nodes, class_nodes, results, ci, parent_func, apc>>
    /\ UNCHANGED <<gvars, dvars>>

\* Lines 97-101: the tree is there, results is set up.
ParseDone ==
    /\ apc = "parse"
    /\ results' = EmptyResults
    /\ apc' = "functions"
    /\ UNCHANGED <<tree, caps, func_nodes, class_nodes, ci, parent_func>>
    /\ UNCHANGED <<gvars, dvars>>

\* Lines 104-122: the function query, func_nodes, results["functions"].
CaptureFunctions ==
    /\ apc = "functions"
    /\ LET cs == DefinitionCaptures(tree, caps, "function_definition",
                                    "function.definition", 1)
           d == Correlate(tree, cs, "function.definition",
                          {"name", "params", "body"}, <<>>)
           last == Reached(d, "function_definition")
       IN /\ func_nodes' = d
          /\ results' = [results EXCEPT !.functions =
                            Entities(tree, d, "function_definition", 1, last)]
          /\ apc' = IF last < Len(d) THEN "raised" ELSE "classes"
    /\ UNCHANGED <<tree, caps, class_nodes, ci, parent_func>>
    /\ UNCHANGED <<gvars, dvars>>

\* Lines 125-142: the class query, class_nodes, results["classes"].
CaptureClasses ==
    /\ apc = "classes"
    /\ LET cs == DefinitionCaptures(tree, caps, "class_definition",
                                    "class.definition", 1)
           d == Correlate(tree, cs, "class.definition", {"name", "body"}, <<>>)
           last == Reached(d, "class_definition")
       IN /\ class_nodes' = d
          /\ results' = [results EXCEPT !.classes =
                            Entities(tree, d, "class_definition", 1, last)]
          /\ apc' = IF last < Len(d) THEN "raised" ELSE "calls"
          /\ ci' = 1
    /\ UNCHANGED <<tree, caps, func_nodes, parent_func>>
    /\ UNCHANGED <<gvars, dvars>>

\* Lines 146-149: the next capture of the call query; for the identifier
\* the walk starts at its parent.
CallNext ==
    /\ apc = "calls"
    /\ ci <= Len(captures_calls)
    /\ LET c == captures_calls[ci] IN
       IF c.name = "name"
       THEN /\ parent_func' = CaptureParent(tree, c)
            /\ apc' = "walk"
            /\ UNCHANGED ci
       ELSE /\ ci' = ci + 1
            /\ UNCHANGED <<parent_func, apc>>
    /\ UNCHANGED <<tree, caps, func_nodes, class_nodes, results>>
    /\ UNCHANGED <<gvars, dvars>>

\* Lines 150-151: one turn of the while loop.
WalkUp ==
    /\ apc = "walk"
    /\ parent_func # 0
    /\ ~WalkStops(tree[parent_func].kind)
    /\ parent_func' = tree[parent_func].parent
    /\ UNCHANGED <<tree, caps, func_nodes, class_nodes, results, ci, apc>>
    /\ UNCHANGED <<gvars, dvars>>

\* Lines 153-163: the walk is over, the call is recorded.
CallRecord ==
    /\ apc = "walk"
    /\ IF parent_func = 0 THEN TRUE ELSE WalkStops(tree[parent_func].kind)
    /\ LET c == captures_calls[ci] IN
       results' = [results EXCEPT !.calls = Append(@,
                      [call_name |-> tree[c.owner].text,
                       line_number |-> StartRow(tree, c.owner),
                       owner_function |-> OwnerName(tree, parent_func)])]
    /\ ci' = ci + 1
    /\ apc' = "calls"
    /\ UNCHANGED <<tree, caps, func_nodes, class_nodes, parent_func>>
    /\ UNCHANGED <<gvars, dvars>>

\* Lines 165-167: no import query is run; results is returned.
AnalyzeReturn ==
    /\ apc = "calls"
    /\ ci > Len(captures_calls)
    /\ apc' = "done"
    /\ UNCHANGED <<tree, caps, func_nodes, class_nodes, results, ci, parent_func>>
    /\ UNCHANGED <<gvars, dvars>>

AnalyzeSteps ==
    \/ ParseDone
    \/ CaptureFunctions
    \/ CaptureClasses
    \/ CallNext
    \/ WalkUp
    \/ CallRecord
    \/ AnalyzeReturn

NextAnalyze == ParseNode \/ AnalyzeSteps

NextCaptures == ParseNodePartial \/ AnalyzeSteps

(***************************************************************************)
(* The specifications: one call of one function, the others idle.          *)
(***************************************************************************)
InitChart ==
    /\ libs \in BOOLEAN
    /\ nodes \in SeqsUpTo(NodeDicts, MaxNodes)
    /\ edges \in SeqsUpTo(EdgeDicts, MaxEdges)
    /\ G = EmptyGraph
    /\ gi = 0
    /\ gpc = "entry"
    /\ ret = EmptyText
    /\ tree = <<Root>>
    /\ caps = <<{}>>
    /\ func_nodes = <<>>
    /\ class_nodes = <<>>
    /\ results = EmptyResults
    /\ ci = 0
    /\ parent_func = 0
    /\ apc = "idle"
    /\ body_node = Block(<<>>)
    /\ docstring = EmptyText
    /\ dpc = "idle"

InitAnalyze ==
    /\ libs = TRUE
    /\ nodes = <<>>
    /\ edges = <<>>
    /\ G = EmptyGraph
    /\ gi = 0
    /\ gpc = "idle"
    /\ ret = EmptyText
    /\ tree = <<Root>>
    /\ caps = <<{}>>
    /\ func_nodes = <<>>
    /\ class_nodes = <<>>
    /\ results = EmptyResults
    /\ ci = 0
    /\ parent_func = 0
    /\ apc = "parse"
    /\ body_node = Block(<<>>)
    /\ docstring = EmptyText
    /\ dpc = "idle"

InitDocstring ==
    /\ libs = TRUE
    /\ nodes = <<>>
    /\ edges = <<>>
    /\ G = EmptyGraph
    /\ gi = 0
    /\ gpc = "idle"
    /\ ret = EmptyText
    /\ tree = <<Root>>
    /\ caps = <<{}>>
    /\ func_nodes = <<>>
    /\ class_nodes = <<>>
    /\ results = EmptyResults
    /\ ci = 0
    /\ parent_func = 0
    /\ apc = "idle"
    /\ body_node \in {Block(ss) : ss \in SeqsUpTo(Statements, MaxBody)}
    /\ docstring = EmptyText
    /\ dpc = "entry"

SpecChart == InitChart /\ [][NextChart]_vars

SpecAnalyze == InitAnalyze /\ [][NextAnalyze]_vars

SpecCaptures == InitAnalyze /\ [][NextCaptures]_vars

SpecDocstring == InitDocstring /\ [][NextDocstring]_vars

(***************************************************************************)
(* Properties of create_mermaid_chart.                                     *)
(***************************************************************************)
\* The ids the node list names.
ExplicitIds == {nodes[i].id : i \in {j \in 1..Len(nodes) : "id" \in DOMAIN nodes[j]}}

\* The label the node list gives an id the last time it names it.
LastLabel(id) ==
    LET at == {i \in 1..Len(nodes) : "id" \in DOMAIN nodes[i] /\ nodes[i].id = id}
    IN nodes[CHOOSE i \in at : \A j \in at : j <= i].label

NodeA == [id |-> "A", label |-> "A"]
EdgeAB == [from |-> "A", to |-> "B"]

\* C1: the graph handed to the renderer holds every edge of the edge list,
\* both endpoints of every edge are nodes of it, a node the node list does
\* not name has its id as label, and nodes=[A], edges=[A->B] give exactly
\* the nodes A and B and the one edge A->B.
C1_NoDanglingEdge ==
    gpc = "render" =>
        /\ nodes # <<>>
        /\ G.edge = {<<edges[i].from, edges[i].to>> : i \in 1..Len(edges)}
        /\ \A e \in G.edge : HasNode(G, e[1]) /\ HasNode(G, e[2])
        /\ \A id \in (DOMAIN G.label) \ ExplicitIds : G.label[id] = id
        /\ (nodes = <<NodeA>> /\ edges = <<EdgeAB>>) =>
              /\ DOMAIN G.label = {"A", "B"}
              /\ G.label["A"] = "A" /\ G.label["B"] = "B"
              /\ G.edge = {<<"A", "B">>}

C1_Witness ==
    /\ gpc = "render"
    /\ nodes = <<NodeA>>
    /\ edges = <<EdgeAB>>

\* C6: create_mermaid_chart never raises to its caller.
C6_NeverRaises == gpc # "raised"

\* C10: once the node loop is over, every id of the node list is in the
\* graph with the label the list gives it last, whatever the edges name,
\* and the nodes with a synthesized label = id are those the list lacks.
C10_ExplicitNodesKept ==
    gpc \in {"edges", "render"} =>
        /\ \A id \in ExplicitIds : HasNode(G, id) /\ G.label[id] = LastLabel(id)
        /\ \A id \in (DOMAIN G.label) \ ExplicitIds :
              /\ G.label[id] = id
              /\ \E i \in 1..(gi - 1) : id \in {edges[i].from, edges[i].to}

C10_Witness ==
    /\ gpc = "render"
    /\ nodes = <<[id |-> "A", label |-> "A"], [id |-> "A", label |-> "x"]>>
    /\ edges = <<EdgeAB, [from |-> "B", to |-> "A"]>>
    /\ G.label["A"] = "x"
    /\ G.label["B"] = "B"

(***************************************************************************)
(* Properties of analyze_python_code.                                      *)
(***************************************************************************)
CallIds == {n \in 1..Len(tree) : tree[n].kind = "call"}

\* The call node the i-th entry of results["calls"] is about.
NthCall(i) == CHOOSE n \in CallIds : Cardinality({m \in CallIds : m < n}) = i - 1

DefAncestors(n) == {a \in Ancestors(tree, n) : tree[a].kind \in Definitions}

FunctionAncestors(n) ==
    {a \in Ancestors(tree, n) : tree[a].kind = "function_definition"}

\* The innermost definition around n: in document order, the last one.
Innermost(n) == CHOOSE b \in DefAncestors(n) : \A a \in DefAncestors(n) : a <= b

\* A function around n that lies in the body of another function.
InNestedFunction(n) ==
    \E b \in FunctionAncestors(n) : FunctionAncestors(b) # {}

Recorded == 1..Len(results.calls)

\* C2: a call inside a function that is nested in a function is recorded
\* with the name of the innermost definition around it, and with the name
\* of no definition further out that is named otherwise.
C2_InnermostOwner ==
    \A i \in Recorded :
        InNestedFunction(NthCall(i)) =>
            /\ results.calls[i].owner_function = tree[Innermost(NthCall(i))].text
            /\ \A a \in DefAncestors(NthCall(i)) :
                  tree[a].text # tree[Innermost(NthCall(i))].text
                      => results.calls[i].owner_function # tree[a].text

C2_Witness ==
    /\ apc = "done"
    /\ Len(tree) = 4
    /\ tree[2].kind = "function_definition" /\ tree[2].text = "f"
    /\ tree[3].kind = "function_definition" /\ tree[3].text = "g"
    /\ tree[3].parent = 2
    /\ tree[4].kind = "call" /\ tree[4].parent = 3
    /\ Len(results.calls) = 1
    /\ results.calls[1].owner_function = "g"

\* The functions of the tree that lie inside a function of the same name.
SameNameNests ==
    {p \in (1..Len(tree)) \X (1..Len(tree)) :
        /\ tree[p[1]].kind = "function_definition"
        /\ tree[p[2]].kind = "function_definition"
        /\ p[1] \in Ancestors(tree, p[2])
        /\ tree[p[1]].text = tree[p[2]].text}

\* Two entries of results["functions"], one per definition, that differ.
TwoEntities(a, b) ==
    \E i, j \in 1..Len(results.functions) :
        /\ results.functions[i].start_line = StartRow(tree, a)
        /\ results.functions[j].start_line = StartRow(tree, b)
        /\ results.functions[i] # results.functions[j]

\* C3, its first half: a function f with a nested function f gives two
\* distinct Function entities.
C3_TwoEntities ==
    apc = "done" => \A p \in SameNameNests : TwoEntities(p[1], p[2])

\* C3: a function f with a nested function f gives two distinct Function
\* entities, and the owner recorded for a call inside the inner f tells
\* the inner f from the outer one.
C3_InnerOwnerDistinct ==
    apc = "done" =>
        \A p \in SameNameNests :
            /\ TwoEntities(p[1], p[2])
            /\ \A i \in Recorded :
                  (DefAncestors(NthCall(i)) # {} /\ Innermost(NthCall(i)) = p[2]) =>
                      results.calls[i].owner_function # OwnerName(tree, p[1])

\* C4: a text that is not well-formed gives four empty sequences and no
\* error.
C4_MalformedGivesEmpty ==
    HasError(tree) =>
        /\ apc # "raised"
        /\ apc = "done" => results = EmptyResults

\* The nodes of a kind whose match has every sub-capture.
CompleteMatches(kind) ==
    {n \in 1..Len(tree) : tree[n].kind = kind /\ caps[n] = Fields(kind)}

ImportIds ==
    {n \in 1..Len(tree) : tree[n].kind \in {"import_statement", "import_from_statement"}}

\* C8: results["imports"] holds one record per import of the text.
C8_OneRecordPerImport ==
    apc = "done" => Len(results.imports) = Cardinality(ImportIds)

\* C7: the owner recorded for a call is None exactly when no definition
\* lies around the call, and a call in a nested block without a definition
\* node of its own is recorded with the nearest definition around it.
C7_OwnerNoneIffTopLevel ==
    \A i \in Recorded :
        /\ results.calls[i].owner_function = None <=> DefAncestors(NthCall(i)) = {}
        /\ (tree[tree[NthCall(i)].parent].kind = "if_statement"
               /\ DefAncestors(NthCall(i)) # {})
              => results.calls[i].owner_function = tree[Innermost(NthCall(i))].text

C7_Witness ==
    /\ apc = "done"
    /\ Len(tree) = 4
    /\ tree[2].kind = "function_definition" /\ tree[2].text = "f"
    /\ tree[3].kind = "if_statement" /\ tree[3].parent = 2
    /\ tree[4].kind = "call" /\ tree[4].parent = 3
    /\ Len(results.calls) = 1
    /\ results.calls[1].owner_function = "f"

(***************************************************************************)
(* Properties of get_docstring.                                            *)
(***************************************************************************)
\* A body whose first statement is a string literal and nothing else.
LeadingString(body) ==
    /\ Len(body.children) > 0
    /\ body.children[1].type = "expression_statement"
    /\ Len(body.children[1].children) = 1
    /\ body.children[1].children[1].type = "string"

\* The text of a string literal without its quotes.
Unquoted(text) == SubSeq(text, 2, Len(text) - 1)

\* C9: the docstring is the text of the leading string literal without its
\* quote characters, and empty when the first statement is anything else.
C9_DocstringUnquoted ==
    dpc = "done" =>
        docstring = IF LeadingString(body_node)
                    THEN Unquoted(body_node.children[1].children[1].text)
                    ELSE EmptyText

\* C9, as the code has it: the text of the literal with its quotes.
C9_DocstringQuoted ==
    dpc = "done" =>
        docstring = IF LeadingString(body_node)
                    THEN body_node.children[1].children[1].text
                    ELSE EmptyText

====
